---- MODULE Spec2Model ----
(***************************************************************************)
(* Model of episode_index.py: Discovery (find_transcript_files),           *)
(* Extraction (extract_episode_title), Rendering (generate_index_html)     *)
(* and the pipeline main().                                                *)
(*                                                                         *)
(* Text is modelled character by character: a string is a sequence of      *)
(* one-character strings.  The character "U+0661" stands for ARABIC-INDIC   *)
(* DIGIT ONE, a Unicode decimal digit that is not an ASCII digit.          *)
(***************************************************************************)
EXTENDS Integers, Sequences, FiniteSets, TLC

VARIABLES
    dirExists,        \* the episodes directory exists
    files,            \* name -> content of the files of the directory (index.html apart)
    indexFile,        \* content of episodes/index.html, or Absent
    writable,         \* index.html can be opened for writing
    pc,               \* position inside main() / the function under study
    run,              \* number of the current invocation of main()
    listing,          \* what os.listdir yielded in this invocation
    transcript_files, \* main(): transcript_files
    episodes,         \* main(): episodes
    html_parts,       \* generate_index_html(): html_parts
    status,           \* exit status of the invocation
    index0,           \* index.html as it was when the invocation started
    prev,             \* what the previous invocation produced
    content,          \* extract_episode_title(): content
    extracted         \* extract_episode_title(): branch taken, group(1), returned title

vars == <<dirExists, files, indexFile, writable, pc, run, listing, transcript_files,
          episodes, html_parts, status, index0, prev, content, extracted>>

(***************************************************************************)
(* Bounds                                                                  *)
(***************************************************************************)
MaxListing == 3   \* entries of a directory listing given to Discovery
MaxFiles == 2     \* files of the episodes directory in a pipeline run
MaxRuns == 2      \* invocations of main() in a row
MaxWs == 1        \* length of a whitespace run around the hyphen of a title

(***************************************************************************)
(* Characters                                                              *)
(***************************************************************************)
NL == "\n"
Absent == <<"ABSENT">>

\* re: \d on a str pattern matches every Unicode decimal digit; int() takes them.
DigitValue(c) ==
    CASE c = "0" -> 0 [] c = "1" -> 1 [] c = "2" -> 2 [] c = "3" -> 3 [] c = "4" -> 4
      [] c = "5" -> 5 [] c = "6" -> 6 [] c = "7" -> 7 [] c = "8" -> 8 [] c = "9" -> 9
      [] c = "U+0661" -> 1
      [] OTHER -> -1

IsDigit(c) == DigitValue(c) >= 0

\* re: \s
IsSpace(c) == c \in {" ", "\t", NL, "\r"}

\* re.IGNORECASE compares letters without regard to case.
Lower(c) ==
    CASE c = "A" -> "a" [] c = "B" -> "b" [] c = "C" -> "c" [] c = "D" -> "d"
      [] c = "E" -> "e" [] c = "H" -> "h" [] c = "I" -> "i" [] c = "L" -> "l"
      [] c = "N" -> "n" [] c = "O" -> "o" [] c = "R" -> "r" [] c = "T" -> "t"
      [] OTHER -> c

\* The literal lit stands in s at position i (1-based).
LitAt(s, i, lit) ==
    /\ i >= 1
    /\ i + Len(lit) - 1 <= Len(s)
    /\ \A k \in 1..Len(lit) : s[i + k - 1] = lit[k]

\* The same, under re.IGNORECASE.
LitAtI(s, i, lit) ==
    /\ i >= 1
    /\ i + Len(lit) - 1 <= Len(s)
    /\ \A k \in 1..Len(lit) : Lower(s[i + k - 1]) = Lower(lit[k])

Tail2(s, i) == SubSeq(s, i, Len(s))

(***************************************************************************)
(* Discovery: find_transcript_files                                        *)
(***************************************************************************)
TRANSCRIPT_EP == <<"t","r","a","n","s","c","r","i","p","t","_","e","p">>
DOT_HTML == <<".","h","t","m","l">>

\* Greedy \d+ from position i: the position after the longest run of digits.
RECURSIVE DigitRunEnd(_, _)
DigitRunEnd(s, i) ==
    IF i <= Len(s) /\ IsDigit(s[i]) THEN DigitRunEnd(s, i + 1) ELSE i

\* re: $ (no MULTILINE) matches at the end of the string and also just before a
\* newline that is the last character of the string.
DollarAt(s, i) ==
    \/ i = Len(s) + 1
    \/ i = Len(s) /\ s[i] = NL

\* pattern.match(filename) for ^transcript_ep(\d+)\.html$ .  After the literal the
\* digit run is greedy; the character that follows must be ".", which is no digit,
\* so a shorter run never matches where the longest does not.
PatternMatch(filename) ==
    LET d == Len(TRANSCRIPT_EP) + 1
        e == DigitRunEnd(filename, d)
    IN  /\ LitAt(filename, 1, TRANSCRIPT_EP)
        /\ e > d
        /\ LitAt(filename, e, DOT_HTML)
        /\ DollarAt(filename, e + Len(DOT_HTML))

\* match.group(1)
Group1(filename) ==
    SubSeq(filename, Len(TRANSCRIPT_EP) + 1,
           DigitRunEnd(filename, Len(TRANSCRIPT_EP) + 1) - 1)

\* int(digits), base ten
RECURSIVE ParseInt(_)
ParseInt(ds) ==
    IF ds = <<>> THEN 0
    ELSE 10 * ParseInt(SubSeq(ds, 1, Len(ds) - 1)) + DigitValue(ds[Len(ds)])

\* os.path.join(episodes_dir, filename)
PathJoin(filename) == <<"episodes", "/">> \o filename

EpisodeFile(filename) ==
    [filename |-> filename, episode_num |-> ParseInt(Group1(filename)),
     path |-> PathJoin(filename)]

\* The loop of lines 32-40: one record per matching name, in listing order.
RECURSIVE Collect(_)
Collect(names) ==
    IF names = <<>> THEN <<>>
    ELSE LET rest == Collect(Tail(names))
         IN  IF PatternMatch(Head(names))
             THEN <<EpisodeFile(Head(names))>> \o rest
             ELSE rest

\* list.sort(key=episode_num): a stable sort.  Insertion after every record whose
\* key is not greater keeps equal keys in their original order.
RECURSIVE InsertByNum(_, _)
InsertByNum(sorted, r) ==
    IF sorted = <<>> THEN <<r>>
    ELSE IF Head(sorted).episode_num <= r.episode_num
         THEN <<Head(sorted)>> \o InsertByNum(Tail(sorted), r)
         ELSE <<r>> \o sorted

RECURSIVE SortByNumFrom(_, _)
SortByNumFrom(acc, rs) ==
    IF rs = <<>> THEN acc
    ELSE SortByNumFrom(InsertByNum(acc, Head(rs)), Tail(rs))

Unsorted(rs) == rs

SortByEpisodeNum(rs) == SortByNumFrom(<<>>, rs)

find_transcript_files(names) == SortByEpisodeNum(Collect(names))

(***************************************************************************)
(* Directory listings Discovery is run on                                  *)
(***************************************************************************)
DigitRuns ==
    { <<>>, <<"0">>, <<"1">>, <<"2">>, <<"0","1">>, <<"1","0">>, <<"U+0661">> }

NamePrefixes == { TRANSCRIPT_EP, <<"T">> \o Tail(TRANSCRIPT_EP) }

NameSuffixes == { DOT_HTML, DOT_HTML \o <<NL>>, DOT_HTML \o <<".","b","a","k">>,
                  <<"x","h","t","m","l">> }

INDEX_HTML == <<"i","n","d","e","x">> \o DOT_HTML

Names ==
    { p \o d \o s : p \in {TRANSCRIPT_EP}, d \in DigitRuns, s \in {DOT_HTML} }
    \cup { p \o <<"1">> \o s : p \in NamePrefixes, s \in NameSuffixes }
    \cup { <<"x">> \o TRANSCRIPT_EP \o <<"1">> \o DOT_HTML, INDEX_HTML }

\* The sequences without repetition of at most n elements of S.
RECURSIVE ListingsOf(_, _)
ListingsOf(S, n) ==
    IF n = 0 THEN { <<>> }
    ELSE LET shorter == ListingsOf(S, n - 1)
         IN  shorter \cup { Append(l, x) : l \in { m \in shorter : Len(m) = n - 1 },
                                            x \in S }

NoRepeat(l) == \A i, j \in 1..Len(l) : i # j => l[i] # l[j]

Listings(S, n) == { l \in ListingsOf(S, n) : NoRepeat(l) }

Idle ==
    /\ dirExists = TRUE /\ files = <<>> /\ indexFile = Absent /\ writable = TRUE
    /\ run = 1 /\ episodes = <<>> /\ html_parts = <<>> /\ status = "running"
    /\ index0 = Absent /\ prev = <<>> /\ content = <<>> /\ extracted = <<>>

InitDiscovery ==
    /\ Idle
    /\ pc = "find"
    /\ listing \in Listings(Names, MaxListing)
    /\ transcript_files = <<>>

Find ==
    /\ pc = "find"
    /\ transcript_files' = find_transcript_files(listing)
    /\ pc' = "found"
    /\ UNCHANGED <<dirExists, files, indexFile, writable, run, listing, episodes,
                   html_parts, status, index0, prev, content, extracted>>

NextDiscovery == Find

SpecDiscovery == InitDiscovery /\ [][NextDiscovery]_vars

(***************************************************************************)
(* What the specification calls a transcript filename: "transcript_ep",    *)
(* one or more decimal digits 0-9, ".html", and no other character.        *)
(***************************************************************************)
AsciiDigits == {"0","1","2","3","4","5","6","7","8","9"}

IsTranscriptName(name) ==
    /\ Len(name) > Len(TRANSCRIPT_EP) + Len(DOT_HTML)
    /\ SubSeq(name, 1, Len(TRANSCRIPT_EP)) = TRANSCRIPT_EP
    /\ SubSeq(name, Len(name) - Len(DOT_HTML) + 1, Len(name)) = DOT_HTML
    /\ \A k \in (Len(TRANSCRIPT_EP) + 1)..(Len(name) - Len(DOT_HTML)) :
           name[k] \in AsciiDigits

\* The value of the digit run of a transcript filename, read as a decimal numeral.
AsciiDigitSeq == <<"0","1","2","3","4","5","6","7","8","9">>

AsciiValue(c) == CHOOSE n \in 0..9 : AsciiDigitSeq[n + 1] = c

RECURSIVE NumeralValue(_, _)
NumeralValue(ds, acc) ==
    IF ds = <<>> THEN acc ELSE NumeralValue(Tail(ds), 10 * acc + AsciiValue(Head(ds)))

NumberOf(name) ==
    NumeralValue(SubSeq(name, Len(TRANSCRIPT_EP) + 1, Len(name) - Len(DOT_HTML)), 0)

Range(f) == { f[i] : i \in DOMAIN f }

Ascending(rs) ==
    \A i \in 1..(Len(rs) - 1) : rs[i].episode_num <= rs[i + 1].episode_num

StrictlyAscending(rs) ==
    \A i \in 1..(Len(rs) - 1) : rs[i].episode_num < rs[i + 1].episode_num

\* C1 (as stated): the records Discovery returns are sorted strictly ascending by
\* episode number, also when two names differ only by leading zeros.
C1_StrictlyAscending ==
    pc = "found" => StrictlyAscending(transcript_files)

\* C1 (amended): the records Discovery returns are sorted ascending by episode
\* number, consecutive records a, b having a.episode_num <= b.episode_num; names
\* that denote the same number all appear, with equal episode numbers.
C1_Ascending ==
    pc = "found" =>
        /\ Ascending(transcript_files)
        /\ \A n \in Range(listing) :
               PatternMatch(n) => \E i \in DOMAIN transcript_files :
                                      transcript_files[i].filename = n

\* A listing that is not in order and holds two names of the same number.
C1_Witness ==
    /\ pc = "found"
    /\ Len(transcript_files) = 3
    /\ ~Ascending(Collect(listing))
    /\ \E i \in 1..2 :
           transcript_files[i].episode_num = transcript_files[i + 1].episode_num

\* C2: Discovery returns exactly one record for each listed name of the form
\* transcript_ep<digits>.html and none for any other name, and the record's
\* episode_num is the non-negative value of the digit run.
C2_ExactlyTheTranscriptNames ==
    pc = "found" =>
        /\ { r.filename : r \in Range(transcript_files) }
               = { n \in Range(listing) : IsTranscriptName(n) }
        /\ \A i, j \in DOMAIN transcript_files :
               transcript_files[i].filename = transcript_files[j].filename => i = j
        /\ \A r \in Range(transcript_files) :
               /\ r.episode_num >= 0
               /\ r.episode_num = NumberOf(r.filename)

(***************************************************************************)
(* Extraction: extract_episode_title                                       *)
(***************************************************************************)
H1_OPEN == <<"<","h","1",">">>
H1_CLOSE == <<"<","/","h","1",">">>
TITLE_OPEN == <<"<","t","i","t","l","e",">">>
TITLE_CLOSE == <<"<","/","t","i","t","l","e",">">>
SHOW == <<"C","a","r","b","o","n"," ","a","n","d"," ",
          "C","a","r","d","b","o","a","r","d">>
UNKNOWN_EPISODE == <<"U","n","k","n","o","w","n"," ","E","p","i","s","o","d","e">>

\* What open() / f.read() raise instead of returning text.
Unreadable == <<"PermissionError">>
BadUtf8 == <<"UnicodeDecodeError">>
ReadFails(c) == c \in {Unreadable, BadUtf8}

\* The lazy group (.+?) followed by the closing tag: from position j on, the group
\* ends where the closing tag first stands; "." takes one more character otherwise,
\* and never a newline.  0 when the attempt fails.
RECURSIVE LazyEnd(_, _, _)
LazyEnd(s, j, close) ==
    IF j + Len(close) - 1 > Len(s) THEN 0
    ELSE IF LitAtI(s, j, close) THEN j
    ELSE IF s[j] = NL THEN 0
    ELSE LazyEnd(s, j + 1, close)

\* One attempt of <open>(.+?)<close> at position i: the position of the closing
\* tag, or 0.  The group holds at least one character.
AttemptAt(s, i, open, close) ==
    LET g == i + Len(open)
    IN  IF LitAtI(s, i, open) /\ g <= Len(s) /\ s[g] # NL
        THEN LazyEnd(s, g + 1, close)
        ELSE 0

\* re.search(..., re.IGNORECASE): the leftmost position where an attempt succeeds;
\* the result is group(1), or NoMatch.
NoMatch == <<"None">>

RECURSIVE SearchFrom(_, _, _, _)
SearchFrom(s, i, open, close) ==
    IF i > Len(s) THEN NoMatch
    ELSE IF AttemptAt(s, i, open, close) # 0
         THEN SubSeq(s, i + Len(open), AttemptAt(s, i, open, close) - 1)
         ELSE SearchFrom(s, i + 1, open, close)

ReSearch(s, open, close) == SearchFrom(s, 1, open, close)

\* Greedy \s* from position i: the position after the run of whitespace.
RECURSIVE SkipSpaces(_, _)
SkipSpaces(s, i) ==
    IF i <= Len(s) /\ IsSpace(s[i]) THEN SkipSpaces(s, i + 1) ELSE i

\* A variant that compares the show name case-sensitively.
StripShowPrefixCased(title) ==
    LET p == SkipSpaces(title, Len(SHOW) + 1)
    IN  IF LitAt(title, 1, SHOW) /\ p <= Len(title) /\ title[p] = "-"
        THEN Tail2(title, SkipSpaces(title, p + 1))
        ELSE title

\* re.sub(r'^Carbon and Cardboard\s*-\s*', '', title, flags=re.IGNORECASE).
\* "^" stands at the start only, so at most one occurrence is removed; the hyphen
\* is no whitespace, so the greedy runs never give characters back.
StripShowPrefix(title) ==
    LET p == SkipSpaces(title, Len(SHOW) + 1)
    IN  IF LitAtI(title, 1, SHOW) /\ p <= Len(title) /\ title[p] = "-"
        THEN Tail2(title, SkipSpaces(title, p + 1))
        ELSE title

\* The branch taken, group(1) of the match, and the title returned.
extract_episode_title(text) ==
    LET h1 == ReSearch(text, H1_OPEN, H1_CLOSE)
        tt == ReSearch(text, TITLE_OPEN, TITLE_CLOSE)
    IN  IF h1 # NoMatch
        THEN [source |-> "h1", raw |-> h1, title |-> StripShowPrefix(h1)]
        ELSE IF tt # NoMatch
        THEN [source |-> "title", raw |-> tt, title |-> StripShowPrefix(tt)]
        ELSE [source |-> "fallback", raw |-> NoMatch, title |-> UNKNOWN_EPISODE]

(***************************************************************************)
(* File contents Extraction is run on                                      *)
(***************************************************************************)
SHOW_LOWER == [k \in 1..Len(SHOW) |-> Lower(SHOW[k])]
SHOW_UPPER == <<"C","A","R","B","O","N"," ","A","N","D"," ",
                "C","A","R","D","B","O","A","R","D">>

Shows == { <<>>, SHOW, SHOW_LOWER, SHOW_UPPER, SubSeq(SHOW, 1, Len(SHOW) - 1) }

RECURSIVE RunsOver(_, _)
RunsOver(S, n) ==
    IF n = 0 THEN { <<>> }
    ELSE RunsOver(S, n - 1) \cup { Append(r, c) : r \in RunsOver(S, n - 1), c \in S }

WsRuns == RunsOver({" ", "\t"}, MaxWs)

SpaceRuns == RunsOver({" "}, MaxWs)

Rests == { <<>>, <<"A">>, <<"-","B">>, <<"A", NL, "B">> }

Texts == { sh \o w1 \o hy \o w2 \o r :
             sh \in Shows, w1 \in SpaceRuns, hy \in { <<>>, <<"-">> }, w2 \in WsRuns,
             r \in Rests }

H1_OPEN_UPPER == <<"<","H","1",">">>
H1_CLOSE_UPPER == <<"<","/","H","1",">">>
TITLE_OPEN_UPPER == <<"<","T","I","T","L","E",">">>
H2_OPEN == <<"<","h","2",">">>
H2_CLOSE == <<"<","/","h","2",">">>

Wrappers == { <<H1_OPEN, H1_CLOSE>>, <<H1_OPEN_UPPER, H1_CLOSE>>,
              <<TITLE_OPEN, TITLE_CLOSE>>, <<TITLE_OPEN_UPPER, TITLE_CLOSE>>,
              <<H2_OPEN, H2_CLOSE>> }

Leads == { <<>>,
           TITLE_OPEN \o <<"T">> \o TITLE_CLOSE \o <<NL>>,
           H1_OPEN \o H1_CLOSE,
           H1_OPEN \o <<NL, "N">> \o H1_CLOSE }

Trails == { <<>>, <<NL>> \o H1_OPEN_UPPER \o <<"H">> \o H1_CLOSE_UPPER }

Contents == { l \o w[1] \o t \o w[2] \o r :
                l \in Leads, w \in Wrappers, t \in Texts, r \in Trails }

InitExtraction ==
    /\ dirExists = TRUE /\ files = <<>> /\ indexFile = Absent /\ writable = TRUE
    /\ run = 1 /\ listing = <<>> /\ transcript_files = <<>> /\ episodes = <<>>
    /\ html_parts = <<>> /\ status = "running" /\ index0 = Absent /\ prev = <<>>
    /\ pc = "extract"
    /\ content \in Contents
    /\ extracted = <<>>

Extract ==
    /\ pc = "extract"
    /\ extracted' = extract_episode_title(content)
    /\ pc' = "extracted"
    /\ UNCHANGED <<dirExists, files, indexFile, writable, run, listing, transcript_files,
                   episodes, html_parts, status, index0, prev, content>>

NextExtraction == Extract

SpecExtraction == InitExtraction /\ [][NextExtraction]_vars

(***************************************************************************)
(* What the specification calls an element: an opening tag, some text and  *)
(* a closing tag, the tags in any letter case; its text is what stands     *)
(* between the opening tag and the first closing tag that ends some text.  *)
(***************************************************************************)
TagAt(s, i, tag) ==
    /\ i >= 1
    /\ i + Len(tag) - 1 <= Len(s)
    /\ \A k \in 1..Len(tag) : s[i + k - 1] \in {tag[k], Lower(tag[k])}

IsElementAt(s, i, open, close) ==
    /\ TagAt(s, i, open)
    /\ \E j \in (i + Len(open) + 1)..Len(s) : TagAt(s, j, close)

ContainsElement(s, open, close) ==
    \E i \in 1..Len(s) : IsElementAt(s, i, open, close)

Min(S) == CHOOSE x \in S : \A y \in S : x <= y

FirstElementText(s, open, close) ==
    LET i == Min({ k \in 1..Len(s) : IsElementAt(s, k, open, close) })
        j == Min({ k \in (i + Len(open) + 1)..Len(s) : TagAt(s, k, close) })
    IN  SubSeq(s, i + Len(open), j - 1)

\* C6: the title comes from the first h1 element when the content has one, also
\* when a title element stands earlier; otherwise from the first title element;
\* with neither, the result is exactly "Unknown Episode".
C6_PriorityOrder ==
    pc = "extracted" =>
        IF ContainsElement(content, H1_OPEN_UPPER, H1_CLOSE_UPPER)
        THEN /\ extracted.source = "h1"
             /\ extracted.raw = FirstElementText(content, H1_OPEN_UPPER, H1_CLOSE_UPPER)
        ELSE IF ContainsElement(content, TITLE_OPEN_UPPER, <<"<","/","T","I","T","L","E",">">>)
        THEN /\ extracted.source = "title"
             /\ extracted.raw = FirstElementText(content, TITLE_OPEN_UPPER,
                                                 <<"<","/","T","I","T","L","E",">">>)
        ELSE extracted.title = UNKNOWN_EPISODE

(***************************************************************************)
(* The show-name prefix, stated on the text itself: the show name in any   *)
(* letter case, whitespace, a hyphen, whitespace, and the rest.            *)
(***************************************************************************)
HasShowName(raw) ==
    /\ Len(raw) >= Len(SHOW)
    /\ \A k \in 1..Len(SHOW) : raw[k] \in {SHOW_LOWER[k], SHOW_UPPER[k]}

\* raw is the show name, a blanks, a hyphen, b blanks, and a rest that begins
\* with no blank.
PrefixForm(raw, a, b) ==
    /\ Len(SHOW) + a + 1 + b <= Len(raw)
    /\ \A k \in (Len(SHOW) + 1)..(Len(SHOW) + a) : raw[k] \in {" ", "\t"}
    /\ raw[Len(SHOW) + a + 1] = "-"
    /\ \A k \in (Len(SHOW) + a + 2)..(Len(SHOW) + a + 1 + b) : raw[k] \in {" ", "\t"}
    /\ Len(SHOW) + a + 1 + b < Len(raw) => raw[Len(SHOW) + a + b + 2] \notin {" ", "\t"}

RestOf(raw, a, b) == SubSeq(raw, Len(SHOW) + a + b + 2, Len(raw))

Blanks(raw) == 0..(Len(raw) - Len(SHOW))

\* C7: a text that begins with the show name in any letter case, optional
\* whitespace, a hyphen and optional whitespace yields what follows them; any other
\* text is returned unchanged; and this holds for the h1 and the title alike.
C7_PrefixStripped ==
    (pc = "extracted" /\ extracted.source \in {"h1", "title"}) =>
        LET raw == extracted.raw
        IN  IF HasShowName(raw)
                /\ \E a, b \in Blanks(raw) : PrefixForm(raw, a, b)
            THEN \A a, b \in Blanks(raw) :
                     PrefixForm(raw, a, b) => extracted.title = RestOf(raw, a, b)
            ELSE extracted.title = raw

\* "carbon and cardboard-A" inside a title element gives "A".
C7_Witness ==
    /\ pc = "extracted"
    /\ extracted.source = "title"
    /\ extracted.raw = SHOW_LOWER \o <<"-", "A">>
    /\ extracted.title = <<"A">>

(***************************************************************************)
(* Rendering: generate_index_html                                          *)
(*                                                                         *)
(* A line of html_parts is a sequence of pieces: literal template text     *)
(* (one string per literal stretch) and the characters interpolated into   *)
(* it.  The stylesheet block, lines 87-144, is one piece.                  *)
(***************************************************************************)
CSS_FILE == <<"transcript_styles.css">>
SPOTIFY_URL == <<"https://open.spotify.com/show/placeholder-episode-">>
YOUTUBE_URL == <<"https://youtube.com/watch?v=placeholder-episode-">>

\* str(n) for n >= 0
RECURSIVE Str(_)
Str(n) ==
    IF n < 10 THEN <<AsciiDigitSeq[n + 1]>>
    ELSE Str(n \div 10) \o <<AsciiDigitSeq[(n % 10) + 1]>>

HeadParts(css_file) ==
    << <<"<!DOCTYPE html>">>,
       <<"<html lang=\"en\">">>,
       <<"<head>">>,
       <<"    <meta charset=\"UTF-8\">">>,
       <<"    <meta name=\"viewport\" content=\"width=device-width, initial-scale=1.0\">">>,
       <<"    <title>Carbon and Cardboard - Episode List</title>">>,
       <<"    <link rel=\"stylesheet\" href=\"">> \o css_file \o <<"\">">>,
       <<"    <style> ... </style>">>,
       <<"</head>">>,
       <<"<body>">>,
       <<"    <div class=\"transcript-container\">">>,
       <<"        <h1>Carbon and Cardboard - Episode List</h1>">>,
       <<"        <table class=\"episode-table\">">>,
       <<"            <thead>">>,
       <<"                <tr>">>,
       <<"                    <th>Episode</th>">>,
       <<"                    <th>Links</th>">>,
       <<"                </tr>">>,
       <<"            </thead>">>,
       <<"            <tbody>">> >>

RowParts(episode) ==
    << <<"                <tr>">>,
       <<"                    <td class=\"episode-name\">">> \o episode.title \o <<"</td>">>,
       <<"                    <td>">>,
       <<"                        <a href=\"">> \o episode.filename
           \o <<"\" class=\"link-btn link-transcript\">Transcript</a>">>,
       <<"                        <a href=\"">> \o SPOTIFY_URL \o Str(episode.episode_num)
           \o <<"\" class=\"link-btn link-spotify\" target=\"_blank\">Spotify</a>">>,
       <<"                        <a href=\"">> \o YOUTUBE_URL \o Str(episode.episode_num)
           \o <<"\" class=\"link-btn link-youtube\" target=\"_blank\">YouTube</a>">>,
       <<"                    </td>">>,
       <<"                </tr>">> >>

TailParts ==
    << <<"            </tbody>">>,
       <<"        </table>">>,
       <<"    </div>">>,
       <<"</body>">>,
       <<"</html>">> >>

RECURSIVE AllRows(_)
AllRows(eps) ==
    IF eps = <<>> THEN <<>> ELSE RowParts(Head(eps)) \o AllRows(Tail(eps))

HtmlParts(eps, css_file) == HeadParts(css_file) \o AllRows(eps) \o TailParts

\* '\n'.join(html_parts)
RECURSIVE Join(_)
Join(parts) ==
    IF parts = <<>> THEN <<>>
    ELSE IF Len(parts) = 1 THEN parts[1]
    ELSE parts[1] \o <<NL>> \o Join(Tail(parts))

\* A variant that opens the file in append mode.
WriteTextAppend(old, text) == IF old = Absent THEN text ELSE old \o text

\* open(output_path, 'w') and f.write(text): the file holds text and nothing else.
WriteText(old, text) == text

(***************************************************************************)
(* The pipeline: main()                                                    *)
(***************************************************************************)
Episode(tf, title) ==
    [filename |-> tf.filename, episode_num |-> tf.episode_num, title |-> title]

\* The names os.listdir yields: every file of the directory, index.html included.
DirNames ==
    DOMAIN files \cup (IF indexFile = Absent THEN {} ELSE {INDEX_HTML})

\* os.listdir returns the names in arbitrary order.
Orders(S) == { l \in Listings(S, Cardinality(S)) : Len(l) = Cardinality(S) }

\* A variant that never takes the directory for missing.
DirMissingNever(exists) == FALSE

\* not episodes_dir.exists()
DirMissing(exists) == ~exists

\* Lines 195-202.
CheckDir ==
    /\ pc = "start"
    /\ IF DirMissing(dirExists)
       THEN /\ status' = "returned 1"
            /\ pc' = "done"
       ELSE /\ pc' = "scan"
            /\ UNCHANGED status
    /\ UNCHANGED <<dirExists, files, indexFile, writable, run, listing, transcript_files,
                   episodes, html_parts, index0, prev, content, extracted>>

\* Lines 205-211.  os.listdir raises FileNotFoundError on a missing directory.
Scan ==
    /\ pc = "scan"
    /\ IF ~dirExists
       THEN /\ status' = "raised"
            /\ pc' = "done"
            /\ UNCHANGED transcript_files
       ELSE \E l \in Orders(DirNames) :
                /\ transcript_files' = find_transcript_files(l)
                /\ IF transcript_files' = <<>>
                   THEN status' = "returned 1" /\ pc' = "done"
                   ELSE pc' = "extract" /\ UNCHANGED status
    /\ UNCHANGED <<dirExists, files, indexFile, writable, run, listing, episodes,
                   html_parts, index0, prev, content, extracted>>

\* A variant that writes the rows gathered so far after each transcript.
ExtractNextStreaming ==
    /\ pc = "extract"
    /\ LET tf == transcript_files[Len(episodes) + 1]
           text == files[tf.filename]
       IN  IF ReadFails(text)
           THEN /\ status' = "raised"
                /\ pc' = "done"
                /\ UNCHANGED <<episodes, indexFile>>
           ELSE /\ episodes' = Append(episodes,
                                      Episode(tf, extract_episode_title(text).title))
                /\ indexFile' = Join(HtmlParts(episodes', CSS_FILE))
                /\ pc' = IF Len(episodes') = Len(transcript_files)
                         THEN "render" ELSE "extract"
                /\ UNCHANGED status
    /\ UNCHANGED <<dirExists, files, writable, run, listing, transcript_files,
                   html_parts, index0, prev, content, extracted>>

\* One turn of the loop of lines 214-222.  open() and f.read() raise on a file that
\* cannot be read or is not UTF-8; main() catches nothing.
ExtractNext ==
    /\ pc = "extract"
    /\ LET tf == transcript_files[Len(episodes) + 1]
           text == files[tf.filename]
       IN  IF ReadFails(text)
           THEN /\ status' = "raised"
                /\ pc' = "done"
                /\ UNCHANGED episodes
           ELSE /\ episodes' = Append(episodes,
                                      Episode(tf, extract_episode_title(text).title))
                /\ pc' = IF Len(episodes') = Len(transcript_files)
                         THEN "render" ELSE "extract"
                /\ UNCHANGED status
    /\ UNCHANGED <<dirExists, files, indexFile, writable, run, listing, transcript_files,
                   html_parts, index0, prev, content, extracted>>

\* generate_index_html, lines 79-185: the document is put together in memory.
Assemble ==
    /\ pc = "render"
    /\ html_parts' = HtmlParts(episodes, CSS_FILE)
    /\ pc' = "write"
    /\ UNCHANGED <<dirExists, files, indexFile, writable, run, listing, transcript_files,
                   episodes, status, index0, prev, content, extracted>>

\* generate_index_html, lines 187-188, and the return of main(), lines 228-231.
WriteIndex ==
    /\ pc = "write"
    /\ IF writable
       THEN /\ indexFile' = WriteText(indexFile, Join(html_parts))
            /\ status' = "returned 0"
       ELSE /\ status' = "raised"
            /\ UNCHANGED indexFile
    /\ pc' = "done"
    /\ UNCHANGED <<dirExists, files, writable, run, listing, transcript_files,
                   episodes, html_parts, index0, prev, content, extracted>>

\* The program is run again on the directory as the last run left it.
Rerun ==
    /\ pc = "done"
    /\ run < MaxRuns
    /\ prev' = [status |-> status, episodes |-> episodes, index |-> indexFile]
    /\ run' = run + 1
    /\ index0' = indexFile
    /\ transcript_files' = <<>>
    /\ episodes' = <<>>
    /\ html_parts' = <<>>
    /\ status' = "running"
    /\ pc' = "start"
    /\ UNCHANGED <<dirExists, files, indexFile, writable, listing, content, extracted>>

(***************************************************************************)
(* Directories the pipeline is run on                                      *)
(***************************************************************************)
EP1 == TRANSCRIPT_EP \o <<"1">> \o DOT_HTML
EP01 == TRANSCRIPT_EP \o <<"0","1">> \o DOT_HTML
EP2 == TRANSCRIPT_EP \o <<"2">> \o DOT_HTML
EP1_NL == EP1 \o <<NL>>

PipelineNames == { EP1, EP01, EP2, EP1_NL }

FIRST == H1_OPEN \o SHOW \o <<" ","-"," ","F">> \o H1_CLOSE
SECOND == TITLE_OPEN \o SHOW \o <<" ","-"," ","S">> \o TITLE_CLOSE

PipelineContents == { FIRST, SECOND, Unreadable, BadUtf8 }

OLD_INDEX == <<"an older index">>

Directories ==
    UNION { [S -> PipelineContents] :
              S \in { T \in SUBSET PipelineNames : Cardinality(T) <= MaxFiles } }

Init ==
    /\ dirExists \in BOOLEAN
    /\ files \in (IF dirExists THEN Directories ELSE { <<>> })
    /\ indexFile \in (IF dirExists THEN {Absent, OLD_INDEX} ELSE {Absent})
    /\ writable \in BOOLEAN
    /\ index0 = indexFile
    /\ pc = "start"
    /\ run = 1
    /\ status = "running"
    /\ listing = <<>>
    /\ transcript_files = <<>>
    /\ episodes = <<>>
    /\ html_parts = <<>>
    /\ prev = <<>>
    /\ content = <<>>
    /\ extracted = <<>>

Next ==
    \/ CheckDir
    \/ Scan
    \/ ExtractNext
    \/ Assemble
    \/ WriteIndex
    \/ Rerun

Spec == Init /\ [][Next]_vars

(***************************************************************************)
(* Properties of the pipeline                                              *)
(***************************************************************************)
TranscriptNames == { n \in DOMAIN files : IsTranscriptName(n) }

\* C3: with the episodes directory missing, main() returns 1 and nothing is
\* listed, read or written: index.html stays absent.
C3_MissingDirectory ==
    ~dirExists =>
        /\ pc \in {"start", "done"}
        /\ indexFile = Absent
        /\ transcript_files = <<>>
        /\ episodes = <<>>
        /\ html_parts = <<>>
        /\ pc = "done" => status = "returned 1"

C3_Witness ==
    /\ ~dirExists
    /\ pc = "done"
    /\ status = "returned 1"
    /\ indexFile = Absent

\* C4: with the directory present and no name of the form transcript_ep<digits>.html
\* in it, main() returns 1 and index.html is left as it was; and main() returns 0
\* only after index.html has been written.
C4_NoTranscripts ==
    pc = "done" =>
        /\ (dirExists /\ TranscriptNames = {}) =>
               (status = "returned 1" /\ indexFile = index0)
        /\ status = "returned 0" =>
               (html_parts # <<>> /\ indexFile = Join(html_parts))

\* C5: with exactly one transcript that cannot be read, main() still writes
\* index.html, with a row for every other transcript, and does not end in an
\* unhandled error.
C5_BadFileSkipped ==
    (/\ pc = "done"
     /\ dirExists
     /\ writable
     /\ Cardinality({ n \in DOMAIN files : ReadFails(files[n]) }) = 1
     /\ \E n \in TranscriptNames : ReadFails(files[n]))
    => /\ status = "returned 0"
       /\ indexFile = Join(html_parts)
       /\ \A n \in TranscriptNames :
              ~ReadFails(files[n]) => \E e \in Range(episodes) : e.filename = n

\* The row the index is to hold for the transcript file called name.
ExpectedRow(name) ==
    RowParts([filename |-> name, episode_num |-> NumberOf(name),
              title |-> extract_episode_title(files[name]).title])

RECURSIVE ExpectedRows(_)
ExpectedRows(names) ==
    IF names = <<>> THEN <<>>
    ELSE ExpectedRow(Head(names)) \o ExpectedRows(Tail(names))

\* C8: after a successful run the index holds exactly one row per file of the form
\* transcript_ep<digits>.html, in ascending order of episode number, each row made
\* of the title, the filename and the number of one and the same file.
C8_OneRowPerTranscript ==
    (pc = "done" /\ status = "returned 0") =>
        \E o \in Orders(TranscriptNames) :
            /\ \A i \in 1..(Len(o) - 1) : NumberOf(o[i]) <= NumberOf(o[i + 1])
            /\ indexFile = Join(HeadParts(CSS_FILE) \o ExpectedRows(o) \o TailParts)

\* C9: index.html changes only in the write that ends generate_index_html, after
\* every transcript has been scanned and read and the whole document has been put
\* together; a run that stops before rendering leaves index.html as it was.
C9_NoPartialOutput ==
    /\ [][indexFile' # indexFile =>
            /\ pc = "write"
            /\ transcript_files # <<>>
            /\ Len(episodes) = Len(transcript_files)
            /\ Len(html_parts) = Len(HeadParts(CSS_FILE))
                                   + Len(episodes) * Len(RowParts(episodes[1]))
                                   + Len(TailParts)
            /\ html_parts[Len(html_parts)] = TailParts[Len(TailParts)]
            /\ indexFile' = Join(html_parts)]_vars
    /\ []((pc = "done" /\ html_parts = <<>>) => indexFile = index0)

\* A run that read one transcript and failed on the next leaves the old index.
C9_Witness ==
    /\ pc = "done"
    /\ status = "raised"
    /\ Len(episodes) >= 1
    /\ html_parts = <<>>
    /\ index0 = OLD_INDEX
    /\ indexFile = OLD_INDEX

DistinctNumbers(eps) ==
    \A i, j \in DOMAIN eps : eps[i].episode_num = eps[j].episode_num => i = j

SameAsBefore ==
    /\ status = "returned 0"
    /\ episodes = prev.episodes
    /\ indexFile = prev.index
    /\ \A e \in Range(episodes) : e.filename # INDEX_HTML

====
